---- MODULE Spec2Model ----
(***************************************************************************)
(* miniclap: schema-driven command-line argument parsing (src/index.ts).   *)
(*                                                                         *)
(* parse(s, params) is modelled as a state machine: the call is entered    *)
(* with a schema and an argument vector, the first loop builds the help    *)
(* lists and the option / flag name lists (normalising `long`), the raw    *)
(* splitter (minimist) builds the raw map, the second loop resolves one    *)
(* parameter per step, and the call returns or throws.                     *)
(*                                                                         *)
(* JavaScript values are tagged records.  A JavaScript string is a         *)
(* sequence of one-character strings, so that conversions (Number, the     *)
(* splitter's lexing of an argument) are computed from the characters.     *)
(***************************************************************************)
EXTENDS Integers, Sequences, FiniteSets, TLC

(***************************************************************************)
(* JavaScript values.                                                      *)
(***************************************************************************)
Undefined == [t |-> "undefined"]
Null == [t |-> "null"]
Str(cs) == [t |-> "string", s |-> cs]
Num(n) == [t |-> "number", n |-> n]
NaN == [t |-> "number", nan |-> TRUE]
Bool(b) == [t |-> "boolean", b |-> b]
Arr(xs) == [t |-> "array", a |-> xs]
Fn(name) == [t |-> "function", f |-> name]

IsStr(v) == v.t = "string"
IsArr(v) == v.t = "array"
IsNaN(v) == v = NaN

\* ToBoolean: what `if (v)`, `!!v`, `v && ...` and `v ||= ...` test.
Truthy(v) ==
  CASE v.t = "undefined" -> FALSE
    [] v.t = "null" -> FALSE
    [] v.t = "string" -> Len(v.s) > 0
    [] v.t = "number" -> v # NaN /\ v.n # 0
    [] v.t = "boolean" -> v.b
    [] OTHER -> TRUE

Digits == <<"0", "1", "2", "3", "4", "5", "6", "7", "8", "9">>

DigitVal(c) == (CHOOSE d \in 1..Len(Digits) : Digits[d] = c) - 1

IsDigit(c) == \E d \in 1..Len(Digits) : Digits[d] = c

AllDigits(cs) == \A k \in 1..Len(cs) : IsDigit(cs[k])

RECURSIVE Decimal(_)
Decimal(cs) ==
  IF cs = <<>> THEN 0
  ELSE 10 * Decimal(SubSeq(cs, 1, Len(cs) - 1)) + DigitVal(cs[Len(cs)])

\* Number(v) on the values the model holds: the empty string is 0, a string
\* of decimal digits is its value, any other string is NaN; a boolean is
\* 0 or 1; an array converts through its elements joined by commas, which
\* is numeric only for fewer than two elements.
RECURSIVE Number(_)
Number(v) ==
  CASE v.t = "number" -> v
    [] v.t = "boolean" -> Num(IF v.b THEN 1 ELSE 0)
    [] v.t = "string" ->
         IF v.s = <<>> THEN Num(0)
         ELSE IF AllDigits(v.s) THEN Num(Decimal(v.s))
         ELSE NaN
    [] v.t = "array" ->
         IF v.a = <<>> THEN Num(0)
         ELSE IF Len(v.a) = 1 /\ v.a[1].t \in {"string", "number"}
              THEN Number(v.a[1])
         ELSE NaN
    [] OTHER -> NaN

(***************************************************************************)
(* The coercion layer.                                                     *)
(***************************************************************************)
\* new ParseError(message): the message quotes the offending argument.
ParseError(what, arg) == [t |-> "ParseError", what |-> what, arg |-> arg]

\* An error that is not a ParseError (what a user coercion raises when it
\* is handed a value it cannot work on).
TypeError == [t |-> "TypeError"]

Return(v) == [k |-> "return", val |-> v]
Throw(e) == [k |-> "throw", err |-> e]

\* Numbers of the model are integers far below 2^53: finite and safe
\* whenever they are not NaN.
IsFinite(n) == n # NaN
IsSafeInteger(n) == n # NaN

\* types.number
number(arg) ==
  LET n == Number(arg) IN
  IF ~IsFinite(n) THEN Throw(ParseError("number", arg)) ELSE Return(n)

\* types.int
int(arg) ==
  LET n == Number(arg) IN
  IF ~IsSafeInteger(n) THEN Throw(ParseError("integer", arg)) ELSE Return(n)

UpperOf(c) == IF c = "x" THEN "X" ELSE IF c = "a" THEN "A" ELSE IF c = "b" THEN "B" ELSE c

\* A user-supplied coercion, (arg) => { if (arg.length === 0) throw new
\* ParseError(..); return arg.toUpperCase() }: a ParseError on the empty
\* string, a TypeError on a value that is not a string (no toUpperCase),
\* the upper-cased string otherwise.
upper(arg) ==
  IF IsStr(arg) /\ arg.s = <<>> THEN Throw(ParseError("empty", arg))
  ELSE IF ~IsStr(arg) THEN Throw(TypeError)
  ELSE Return(Str([k \in 1..Len(arg.s) |-> UpperOf(arg.s[k])]))

\* param.type(arg) for the coercion functions of the model.
Call(f, arg) ==
  CASE f = Fn("number") -> number(arg)
    [] f = Fn("int") -> int(arg)
    [] f = Fn("upper") -> upper(arg)

\* types.bool, the string "bool".
bool == Str(<<"b", "o", "o", "l">>)

\* parser with a catch that keeps every error, whatever its kind.
parserCatchAll(param, arg) ==
  IF param.type = bool
  THEN [k |-> "return", val |-> Bool(Truthy(arg)), err |-> Null]
  ELSE LET r == IF Truthy(param.type) THEN Call(param.type, arg) ELSE Return(arg) IN
       IF r.k = "return" THEN [k |-> "return", val |-> r.val, err |-> Null]
       ELSE [k |-> "return", val |-> Null, err |-> r.err]

\* The per-parameter `parser`: [val, null], [null, ParseError], or the
\* rethrow of any other error.
parser(param, arg) ==
  IF param.type = bool
  THEN [k |-> "return", val |-> Bool(Truthy(arg)), err |-> Null]
  ELSE LET r == IF Truthy(param.type) THEN Call(param.type, arg) ELSE Return(arg) IN
       IF r.k = "return" THEN [k |-> "return", val |-> r.val, err |-> Null]
       ELSE IF r.err.t = "ParseError" THEN [k |-> "return", val |-> Null, err |-> r.err]
       ELSE [k |-> "throw", val |-> Null, err |-> r.err]

(***************************************************************************)
(* The raw splitter, minimist(s, {string: options, boolean: flags}), on    *)
(* the argument forms --key=value, --key, -k (one letter) and bare tokens. *)
(* raw.opts is the object's own keys other than "_" in insertion order,    *)
(* raw.pos is raw._ .                                                      *)
(***************************************************************************)
Has(raw, key) == \E n \in 1..Len(raw.opts) : raw.opts[n].key = key

Get(raw, key) ==
  IF Has(raw, key)
  THEN raw.opts[CHOOSE n \in 1..Len(raw.opts) : raw.opts[n].key = key].val
  ELSE Undefined

RECURSIVE Without(_, _)
Without(opts, key) ==
  IF opts = <<>> THEN <<>>
  ELSE IF Head(opts).key = key THEN Without(Tail(opts), key)
  ELSE <<Head(opts)>> \o Without(Tail(opts), key)

\* delete raw[key]
Delete(raw, key) == [raw EXCEPT !.opts = Without(raw.opts, key)]

\* raw[key] = val: an existing key keeps its place, a new one is appended.
Put(raw, key, val) ==
  IF Has(raw, key)
  THEN [raw EXCEPT !.opts =
          [n \in 1..Len(raw.opts) |->
             IF raw.opts[n].key = key THEN [key |-> key, val |-> val] ELSE raw.opts[n]]]
  ELSE [raw EXCEPT !.opts = Append(raw.opts, [key |-> key, val |-> val])]

Member(list, x) == \E n \in 1..Len(list) : list[n] = x

\* minimist's isNumber, on strings without sign, point, exponent or 0x.
isNumber(x) ==
  \/ x.t = "number"
  \/ IsStr(x) /\ x.s # <<>> /\ AllDigits(x.s)

\* minimist's setKey: a first value or a boolean is overwritten, a second
\* value of a non-boolean key makes an array, a later one is pushed.
setKey(argv, bools, key, value) ==
  LET old == Get(argv, key) IN
  IF old = Undefined \/ Member(bools, key) \/ old.t = "boolean"
  THEN Put(argv, key, value)
  ELSE IF IsArr(old) THEN Put(argv, key, Arr(Append(old.a, value)))
  ELSE Put(argv, key, Arr(<<old, value>>))

\* minimist's setArg: a numeric-looking value of a key not declared a
\* string becomes a number.
setArg(argv, strings, bools, key, val) ==
  LET value == IF ~Member(strings, key) /\ isNumber(val) THEN Number(val) ELSE val IN
  setKey(argv, bools, key, value)

IndexOf(cs, c) ==
  IF \E n \in 1..Len(cs) : cs[n] = c
  THEN CHOOSE n \in 1..Len(cs) : cs[n] = c /\ \A m \in 1..(n - 1) : cs[m] # c
  ELSE 0

\* /^--([^=]+)=([\s\S]*)$/
IsLongEq(arg) ==
  /\ Len(arg) >= 4
  /\ arg[1] = "-" /\ arg[2] = "-"
  /\ IndexOf(arg, "=") >= 4

\* /^--.+/
IsLong(arg) == Len(arg) >= 3 /\ arg[1] = "-" /\ arg[2] = "-"

\* /^-[^-]+/ with a single letter
IsShort(arg) == Len(arg) = 2 /\ arg[1] = "-" /\ arg[2] # "-"

\* /^(-|--)[^-]/
LooksLikeOption(arg) ==
  \/ Len(arg) >= 2 /\ arg[1] = "-" /\ arg[2] # "-"
  \/ Len(arg) >= 3 /\ arg[1] = "-" /\ arg[2] = "-" /\ arg[3] # "-"

TrueChars == <<"t", "r", "u", "e">>
FalseChars == <<"f", "a", "l", "s", "e">>

RECURSIVE minimistLoop(_, _, _, _, _)
minimistLoop(args, n, strings, bools, argv) ==
  IF n > Len(args) THEN argv
  ELSE
    LET arg == args[n]
        hasNext == n < Len(args)
        next == IF hasNext THEN args[n + 1] ELSE <<>>
    IN
    IF IsLongEq(arg) THEN
      LET eq == IndexOf(arg, "=")
          key == SubSeq(arg, 3, eq - 1)
          text == SubSeq(arg, eq + 1, Len(arg))
          value == IF Member(bools, key) THEN Bool(text # FalseChars) ELSE Str(text)
      IN minimistLoop(args, n + 1, strings, bools, setArg(argv, strings, bools, key, value))
    ELSE IF IsLong(arg) THEN
      LET key == SubSeq(arg, 3, Len(arg)) IN
      IF hasNext /\ ~LooksLikeOption(next) /\ ~Member(bools, key)
      THEN minimistLoop(args, n + 2, strings, bools,
                        setArg(argv, strings, bools, key, Str(next)))
      ELSE IF hasNext /\ next \in {TrueChars, FalseChars}
      THEN minimistLoop(args, n + 2, strings, bools,
                        setArg(argv, strings, bools, key, Bool(next = TrueChars)))
      ELSE minimistLoop(args, n + 1, strings, bools,
                        setArg(argv, strings, bools, key,
                               IF Member(strings, key) THEN Str(<<>>) ELSE Bool(TRUE)))
    ELSE IF IsShort(arg) THEN
      LET key == SubSeq(arg, 2, 2) IN
      IF hasNext /\ next # <<>> /\ ~LooksLikeOption(next) /\ ~Member(bools, key)
      THEN minimistLoop(args, n + 2, strings, bools,
                        setArg(argv, strings, bools, key, Str(next)))
      ELSE IF hasNext /\ next \in {TrueChars, FalseChars}
      THEN minimistLoop(args, n + 2, strings, bools,
                        setArg(argv, strings, bools, key, Bool(next = TrueChars)))
      ELSE minimistLoop(args, n + 1, strings, bools,
                        setArg(argv, strings, bools, key,
                               IF Member(strings, key) THEN Str(<<>>) ELSE Bool(TRUE)))
    ELSE
      minimistLoop(args, n + 1, strings, bools,
                   [argv EXCEPT !.pos =
                      Append(@, IF isNumber(Str(arg)) THEN Number(Str(arg)) ELSE Str(arg))])

RECURSIVE presetBools(_, _, _, _)
presetBools(bools, n, strings, argv) ==
  IF n > Len(bools) THEN argv
  ELSE presetBools(bools, n + 1, strings,
                   setArg(argv, strings, bools, bools[n], Bool(FALSE)))

\* Every declared boolean starts out false, then the arguments are read
\* left to right.
minimist(args, strings, bools) ==
  minimistLoop(args, 1, strings, bools,
               presetBools(bools, 1, strings, [pos |-> <<>>, opts |-> <<>>]))

(***************************************************************************)
(* Schemas and argument vectors of the model.                              *)
(***************************************************************************)
MaxParams == 2
MaxArgs == 2

\* A parameter descriptor (type Param).
Param(short, long, type, optional, default) ==
  [short |-> short, long |-> long, type |-> type, optional |-> optional,
   default |-> default]

a == Str(<<"a">>)
b == Str(<<"b">>)

\* The descriptors schemas are built from: each is a value of type Param.
Descriptors ==
  { Param(Undefined, Undefined, Fn("int"), Undefined, Undefined),
    Param(Undefined, Undefined, Fn("int"), Undefined, Str(<<"x">>)),
    Param(Undefined, Undefined, bool, Undefined, Undefined),
    Param(Undefined, Undefined, Fn("upper"), Bool(TRUE), Undefined),
    Param(a, b, Fn("number"), Undefined, Str(<<"1">>)),
    Param(a, Arr(<<b>>), bool, Undefined, Undefined),
    Param(Undefined, Arr(<<b, a>>), Undefined, Undefined, Str(<<>>)) }

\* The arguments argument vectors are built from: bare tokens (one of them
\* empty), --key, -k and --key=value.
Arguments ==
  { <<"1">>, <<"x">>, <<>>,
    <<"-", "-", "a">>, <<"-", "b">>, <<"-", "-", "b", "=", "2">> }

SeqsUpTo(S, n) == UNION {[1..m -> S] : m \in 0..n}

Schemas == SeqsUpTo(Descriptors, MaxParams)
ArgumentVectors == SeqsUpTo(Arguments, MaxArgs)

(***************************************************************************)
(* State of one call parse(s, params).                                     *)
(***************************************************************************)
VARIABLES
  params,   \* the schema object, a list of descriptors in key order
  s,        \* the argument vector
  pc,       \* "entry", "resolve", "returned" or "thrown"
  options,  \* names handed to the splitter as strings
  flags,    \* names handed to the splitter as booleans
  help,     \* { params: helpParams, options: helpOptions }
  raw,      \* the splitter's result, consumed by deletion
  raw0,     \* history: the splitter's result as it was returned
  key,      \* position of the second loop in the schema
  args,     \* the result under construction
  errors,   \* { invalid, missing, unexpected }
  ret,      \* what the call returned or threw
  call,     \* 1 in a first call, 2 in a call repeated on the same objects
  first,    \* history: what the first call returned or threw
  str,      \* the command line, when the input is a string
  state,    \* split: the lexer's state
  i,        \* split: the read index (0-based, as in the source)
  current,  \* split: the token being accumulated
  all       \* split: the tokens pushed so far

\* What a repeated call keeps from the first one.
twice == <<call, first>>

\* The tokenizer's own state.
lexer == <<str, state, i, current, all>>

vars == <<params, s, pc, options, flags, help, raw, raw0, key, args, errors, ret,
          call, first, str, state, i, current, all>>

\* The schema key at position n of the schema.
KeyName(n) == <<"k", Digits[n + 1]>>

\* The working state a call starts from.
Start ==
  /\ options = <<>>
  /\ flags = <<>>
  /\ help = [params |-> <<>>, options |-> <<>>]
  /\ raw = [pos |-> <<>>, opts |-> <<>>]
  /\ raw0 = raw
  /\ key = 1
  /\ args = <<>>
  /\ errors = [invalid |-> <<>>, missing |-> <<>>, unexpected |-> <<>>]
  /\ ret = Undefined
  /\ state = "Skipping"
  /\ i = 0
  /\ current = <<>>
  /\ all = <<>>

\* A call parse(s, params) on an argument vector.
Init ==
  /\ params \in Schemas
  /\ s \in ArgumentVectors
  /\ str = <<>>
  /\ pc = "entry"
  /\ call = 1
  /\ first = Undefined
  /\ Start

(***************************************************************************)
(* The tokenizer, split(s): a four-state lexer over the characters of the  *)
(* command line, one loop iteration per step.  The first loop of parse     *)
(* reads only the schema and split reads only the string, so their order   *)
(* cannot be observed; the model tokenizes on entry.                       *)
(***************************************************************************)
\* "\b" and "\v", which a string of this notation cannot spell.
Backspace == "BS"
VerticalTab == "VT"

\* What s[i] is beyond the end of s.
NoChar == "undefined"

\* read that leaves the index where it is.
readInPlace(cs, n) == [c |-> IF n < Len(cs) THEN cs[n + 1] ELSE NoChar, i |-> n]

\* s[i++]: the character at the read index (0-based) and the index after.
read(cs, n) == [c |-> IF n < Len(cs) THEN cs[n + 1] ELSE NoChar, i |-> n + 1]

\* current += c, which appends the text "undefined" for an undefined c.
concat(cur, c) ==
  IF c = NoChar THEN cur \o <<"u", "n", "d", "e", "f", "i", "n", "e", "d">>
  ELSE Append(cur, c)

whitespace(c) == c = " " \/ c = "\t"

\* The escape switch with no table: every escaped character is literal.
escapeLiteral(cc) == cc

\* Lines 152-180: the escape table of a double-quoted section.
escape(cc) ==
  CASE cc = "b" -> Backspace
    [] cc = "f" -> "\f"
    [] cc = "n" -> "\n"
    [] cc = "r" -> "\r"
    [] cc = "t" -> "\t"
    [] cc = "v" -> VerticalTab
    [] OTHER -> cc

\* push(lx, st, cur): state = st; all.push(current); current = cur.
push(lx, st, cur) ==
  [lx EXCEPT !.state = st, !.all = Append(@, lx.current), !.current = cur]

\* Lines 113-130.  lx = [state, i, current, all], i already past c.
skipping(c, lx) ==
  IF whitespace(c) THEN lx
  ELSE IF c = "'" THEN push(lx, "Single", <<>>)
  ELSE IF c = "\"" THEN push(lx, "Double", <<>>)
  ELSE push(lx, "Reading", <<c>>)

\* Lines 131-138.
reading(c, lx) ==
  IF whitespace(c) THEN [lx EXCEPT !.state = "Skipping"]
  ELSE [lx EXCEPT !.current = concat(@, c)]

\* A single-quoted section that either kind of quote closes.
singleClosedByAnyQuote(c, lx) ==
  IF c = "'" \/ c = "\"" THEN [lx EXCEPT !.state = "Skipping"]
  ELSE [lx EXCEPT !.current = concat(@, c)]

\* Lines 139-146.
single(c, lx) ==
  IF c = "'" THEN [lx EXCEPT !.state = "Skipping"]
  ELSE [lx EXCEPT !.current = concat(@, c)]

\* Lines 147-185.
double(c, lx, cs) ==
  IF c = "\"" THEN [lx EXCEPT !.state = "Skipping"]
  ELSE IF c = "\\"
       THEN LET r == read(cs, lx.i) IN
            [lx EXCEPT !.i = r.i, !.current = concat(@, escape(r.c))]
  ELSE [lx EXCEPT !.current = concat(@, c)]

\* Lines 110-187: one iteration of the loop.
Scan ==
  /\ pc = "split"
  /\ i < Len(str)
  /\ LET r == read(str, i)
         lx == [state |-> state, i |-> r.i, current |-> current, all |-> all]
         nx == CASE state = "Skipping" -> skipping(r.c, lx)
                 [] state = "Reading" -> reading(r.c, lx)
                 [] state = "Single" -> single(r.c, lx)
                 [] state = "Double" -> double(r.c, lx, str)
     IN /\ state' = nx.state
        /\ i' = nx.i
        /\ current' = nx.current
        /\ all' = nx.all
  /\ UNCHANGED <<params, s, pc, options, flags, help, raw, raw0, key, args, errors,
                 ret, twice, str>>

\* The filter that keeps every token.
keepAll(tokens) == tokens

\* Line 190: all.filter((s) => s.length > 0)
nonEmpty(tokens) ==
  LET long(tok) == Len(tok) > 0 IN SelectSeq(tokens, long)

\* Lines 188-195: the last push, the filter, and s = split(s).
EndOfInput ==
  /\ pc = "split"
  /\ i >= Len(str)
  /\ all' = Append(all, current)
  /\ s' = nonEmpty(all')
  /\ pc' = "entry"
  /\ UNCHANGED <<params, options, flags, help, raw, raw0, key, args, errors, ret,
                 twice, str, state, i, current>>

\* The command lines of the model: every string of at most MaxLen
\* characters over the characters the lexer tests for and one more (a tab,
\* a letter of the escape table, or a letter outside it).
MaxLen == 5
Core == {" ", "'", "\"", "\\"}
Extras == {"\t", "b", "f", "n", "r", "t", "v", "x"}
Strings == UNION {SeqsUpTo(Core \cup {e}, MaxLen) : e \in Extras}

\* split(str), for every command line.
InitSplit ==
  /\ params = <<>>
  /\ s = <<>>
  /\ str \in Strings
  /\ pc = "split"
  /\ call = 1
  /\ first = Undefined
  /\ Start

NextSplit == Scan \/ EndOfInput

SpecSplit == InitSplit /\ [][NextSplit]_vars

(***************************************************************************)
(* The first loop: name lists, normalisation of `long`, help.              *)
(***************************************************************************)
\* if (param.long && typeof param.long === "string") param.long = [param.long]
normalise(param) ==
  IF Truthy(param.long) /\ IsStr(param.long)
  THEN [param EXCEPT !.long = Arr(<<param.long>>)]
  ELSE param

\* longOf that reads only a long still in its string form.
longOfString(param) ==
  IF Truthy(param.long) /\ IsStr(param.long) THEN <<param.long>> ELSE <<>>

\* The elements `for (const p of param.long)` visits.
longOf(param) == IF Truthy(param.long) THEN normalise(param).long.a ELSE <<>>

\* What one parameter pushes on its name list: short, then each long.
namesOf(param) ==
  (IF Truthy(param.short) THEN <<param.short.s>> ELSE <<>>)
    \o [n \in 1..Len(longOf(param)) |-> longOf(param)[n].s]

RECURSIVE namesOfKind(_, _)
namesOfKind(ps, isFlag) ==
  IF ps = <<>> THEN <<>>
  ELSE (IF (Head(ps).type = bool) = isFlag THEN namesOf(Head(ps)) ELSE <<>>)
         \o namesOfKind(Tail(ps), isFlag)

RECURSIVE join(_, _)
join(parts, sep) ==
  IF parts = <<>> THEN <<>>
  ELSE IF Len(parts) = 1 THEN parts[1]
  ELSE parts[1] \o sep \o join(Tail(parts), sep)

\* The help line of one parameter.
helpOf(n, param) ==
  LET short == IF Truthy(param.short) THEN << <<"-">> \o param.short.s >> ELSE <<>>
      long == [m \in 1..Len(longOf(param)) |-> <<"-", "-">> \o longOf(param)[m].s]
      value ==
        IF param.type # bool
        THEN IF Truthy(param.default)
             THEN << <<"<">> \o KeyName(n) \o <<"=">> \o param.default.s \o <<">">> >>
             ELSE << <<"<">> \o KeyName(n) \o <<">">> >>
        ELSE <<>>
  IN join(short \o long \o value, <<" ">>)

isOption(param) == Truthy(param.short) \/ Truthy(param.long)

RECURSIVE helpList(_, _, _)
helpList(ps, n, wantOptions) ==
  IF n > Len(ps) THEN <<>>
  ELSE (IF isOption(ps[n]) = wantOptions THEN <<helpOf(n, ps[n])>> ELSE <<>>)
         \o helpList(ps, n + 1, wantOptions)

\* Lines 60-206: the first loop, the splitter, the empty accumulators.
Prepare ==
  /\ pc = "entry"
  /\ params' = [n \in 1..Len(params) |-> normalise(params[n])]
  /\ options' = namesOfKind(params, FALSE)
  /\ flags' = namesOfKind(params, TRUE)
  /\ help' = [params |-> helpList(params, 1, FALSE), options |-> helpList(params, 1, TRUE)]
  /\ raw' = minimist(s, options', flags')
  /\ raw0' = raw'
  /\ args' = [n \in 1..Len(params) |-> Undefined]
  /\ errors' = [invalid |-> [n \in 1..Len(params) |-> Undefined],
                missing |-> <<>>, unexpected |-> <<>>]
  /\ key' = 1
  /\ pc' = "resolve"
  /\ UNCHANGED <<s, ret, twice, lexer>>

(***************************************************************************)
(* The second loop: one parameter per iteration.  An iteration works on    *)
(* st = [raw, val, err, exc]: the raw map, args[key], errors.invalid[key]  *)
(* and the error a coercion rethrew, if any (nothing runs after it).       *)
(***************************************************************************)
\* store with `||=` for every kind of parameter.
storeOrAssign(st, r, orAssign) ==
  IF r.k = "throw" THEN [st EXCEPT !.exc = r.err]
  ELSE IF r.err # Null THEN [st EXCEPT !.err = r.err]
  ELSE [st EXCEPT !.val = IF Truthy(st.val) THEN st.val ELSE r.val]

\* store with `=` for every kind of parameter.
storeAssign(st, r, orAssign) ==
  IF r.k = "throw" THEN [st EXCEPT !.exc = r.err]
  ELSE IF r.err # Null THEN [st EXCEPT !.err = r.err]
  ELSE [st EXCEPT !.val = r.val]

\* const [val, err] = parser(..); if (err) invalid[key] = err; else
\* args[key] = val  (or args[key] ||= val for a boolean's long alias).
store(st, r, orAssign) ==
  IF r.k = "throw" THEN [st EXCEPT !.exc = r.err]
  ELSE IF r.err # Null THEN [st EXCEPT !.err = r.err]
  ELSE IF orAssign THEN [st EXCEPT !.val = IF Truthy(st.val) THEN st.val ELSE r.val]
  ELSE [st EXCEPT !.val = r.val]

\* Lines 226-233.
fromDefault(param, st) ==
  IF Truthy(param.default) THEN store(st, parser(param, param.default), FALSE) ELSE st

\* fromAlias without the deletion of raw[name].
fromAliasKeeping(param, st, name, orAssign) ==
  store(st, parser(param, Get(st.raw, name)), orAssign)

\* One bound alias: coerce raw[name], then delete raw[name], then store.
fromAlias(param, st, name, orAssign) ==
  LET r == parser(param, Get(st.raw, name)) IN
  IF r.k = "throw" THEN store(st, r, orAssign)
  ELSE store([st EXCEPT !.raw = Delete(st.raw, name)], r, orAssign)

\* Lines 235-244.
fromShort(param, st) ==
  IF st.exc = Undefined /\ Truthy(param.short) /\ Has(st.raw, param.short.s)
  THEN fromAlias(param, st, param.short.s, FALSE)
  ELSE st

\* Lines 246-261.
RECURSIVE fromLong(_, _, _)
fromLong(param, st, n) ==
  IF st.exc # Undefined \/ n > Len(longOf(param)) THEN st
  ELSE LET p == longOf(param)[n].s IN
       fromLong(param,
                IF Has(st.raw, p) THEN fromAlias(param, st, p, param.type = bool) ELSE st,
                n + 1)

\* fromPositional with pop() for shift().
fromPositionalPop(param, st) ==
  IF st.exc = Undefined /\ ~Truthy(param.short) /\ ~Truthy(param.long)
     /\ Len(st.raw.pos) > 0
  THEN store([st EXCEPT !.raw.pos = SubSeq(@, 1, Len(@) - 1)],
             parser(param, st.raw.pos[Len(st.raw.pos)]), FALSE)
  ELSE st

\* Lines 263-270.
fromPositional(param, st) ==
  IF st.exc = Undefined /\ ~Truthy(param.short) /\ ~Truthy(param.long)
     /\ Len(st.raw.pos) > 0
  THEN store([st EXCEPT !.raw.pos = Tail(@)], parser(param, Head(st.raw.pos)), FALSE)
  ELSE st

\* Lines 226-270 for one parameter: the four sources in order, each
\* applied to the state the one before it left.
resolve(param, r, invalid) ==
  LET s0 == [raw |-> r, val |-> Undefined, err |-> invalid, exc |-> Undefined] IN
  CHOOSE st \in
    {fromPositional(param, s3) : s3 \in
      {fromLong(param, s2, 1) : s2 \in
        {fromShort(param, s1) : s1 \in {fromDefault(param, s0)}}}} : TRUE

\* Lines 272-275: an unresolved boolean flag is false.
settle(param, val) ==
  IF val = Undefined /\ param.type = bool THEN Bool(FALSE) ELSE val

\* isMissing with the test of `optional` inverted.
isMissingIfOptional(param, val) ==
  val = Undefined /\ param.type # bool /\ Truthy(param.optional)

\* isMissing without the test of the parameter's kind.
isMissingAnyKind(param, val) ==
  val = Undefined /\ ~Truthy(param.optional)

\* Lines 272-277: an unresolved parameter that is neither a boolean flag
\* nor optional is missing.
isMissing(param, val) ==
  val = Undefined /\ param.type # bool /\ ~Truthy(param.optional)

\* Lines 208-279, an iteration that completes.
Resolve ==
  /\ pc = "resolve"
  /\ key <= Len(params)
  /\ \E param \in {params[key]} : \E st \in {resolve(param, raw, errors.invalid[key])} :
        /\ st.exc = Undefined
        /\ raw' = st.raw
        /\ args' = [args EXCEPT ![key] = settle(param, st.val)]
        /\ errors' = [errors EXCEPT
                        !.invalid[key] = st.err,
                        !.missing = IF isMissing(param, st.val) THEN Append(@, key) ELSE @]
  /\ key' = key + 1
  /\ UNCHANGED <<params, s, pc, options, flags, help, raw0, ret, twice, lexer>>

\* Lines 216-222: a coercion raised an error that is not a ParseError; it
\* leaves parse.
ResolveThrow ==
  /\ pc = "resolve"
  /\ key <= Len(params)
  /\ \E st \in {resolve(params[key], raw, errors.invalid[key])} :
       /\ st.exc # Undefined
       /\ raw' = st.raw
       /\ args' = [args EXCEPT ![key] = st.val]
       /\ errors' = [errors EXCEPT !.invalid[key] = st.err]
       /\ ret' = [t |-> "throw", err |-> st.exc]
  /\ pc' = "thrown"
  /\ UNCHANGED <<params, s, options, flags, help, raw0, key, twice, lexer>>

(***************************************************************************)
(* After the loop: unexpected input, and the return.                       *)
(***************************************************************************)
\* unexpectedArgs without the skip of empty strings.
unexpectedArgsAll(pos) == pos

\* Lines 281-284.
RECURSIVE unexpectedArgs(_)
unexpectedArgs(pos) ==
  IF pos = <<>> THEN <<>>
  ELSE (IF Head(pos) = Str(<<>>) THEN <<>> ELSE <<Head(pos)>>)
         \o unexpectedArgs(Tail(pos))

\* Lines 285-288.
unexpectedOpts(opts) == [n \in 1..Len(opts) |-> Str(opts[n].key)]

hasKeys(invalid) == \E n \in 1..Len(invalid) : invalid[n] # Undefined

\* outcome without the test of unexpected.
outcomeIgnoringUnexpected(as, es, h) ==
  IF hasKeys(es.invalid) \/ Len(es.missing) > 0
  THEN [t |-> "return", args |-> Null, errors |-> [t |-> "object", o |-> es], help |-> h]
  ELSE [t |-> "return", args |-> [t |-> "object", o |-> as], errors |-> Null, help |-> h]

\* Lines 290-298.
outcome(as, es, h) ==
  IF hasKeys(es.invalid) \/ Len(es.missing) > 0 \/ Len(es.unexpected) > 0
  THEN [t |-> "return", args |-> Null, errors |-> [t |-> "object", o |-> es], help |-> h]
  ELSE [t |-> "return", args |-> [t |-> "object", o |-> as], errors |-> Null, help |-> h]

\* collectUnexpected that stops when a problem is already recorded.
collectUnexpectedIfClean(es, r) ==
  IF hasKeys(es.invalid) \/ Len(es.missing) > 0 THEN es
  ELSE [es EXCEPT !.unexpected = @ \o unexpectedArgs(r.pos) \o unexpectedOpts(r.opts)]

\* Lines 281-288.
collectUnexpected(es, r) ==
  [es EXCEPT !.unexpected = @ \o unexpectedArgs(r.pos) \o unexpectedOpts(r.opts)]

\* Lines 281-298.
Finish ==
  /\ pc = "resolve"
  /\ key > Len(params)
  /\ errors' = collectUnexpected(errors, raw)
  /\ ret' = outcome(args, errors', help)
  /\ pc' = "returned"
  /\ UNCHANGED <<params, s, options, flags, help, raw, raw0, key, args, twice, lexer>>

Next == Prepare \/ Resolve \/ ResolveThrow \/ Finish

Spec == Init /\ [][Next]_vars

(***************************************************************************)
(* Two calls in succession on the same objects: the caller keeps what the  *)
(* first call returned or threw and calls parse(s, params) again.  The     *)
(* locals of parse are fresh in each call; the schema object is the one    *)
(* the first call left, and so is the argument vector.                     *)
(***************************************************************************)
MaxParamsTwice == 2
MaxArgsTwice == 1

InitTwice ==
  /\ params \in SeqsUpTo(Descriptors, MaxParamsTwice)
  /\ s \in SeqsUpTo(Arguments, MaxArgsTwice)
  /\ str = <<>>
  /\ pc = "entry"
  /\ call = 1
  /\ first = Undefined
  /\ Start

Again ==
  /\ pc \in {"returned", "thrown"}
  /\ call = 1
  /\ call' = 2
  /\ first' = ret
  /\ pc' = "entry"
  /\ options' = <<>>
  /\ flags' = <<>>
  /\ help' = [params |-> <<>>, options |-> <<>>]
  /\ raw' = [pos |-> <<>>, opts |-> <<>>]
  /\ raw0' = raw'
  /\ key' = 1
  /\ args' = <<>>
  /\ errors' = [invalid |-> <<>>, missing |-> <<>>, unexpected |-> <<>>]
  /\ ret' = Undefined
  /\ UNCHANGED <<params, s, lexer>>

NextTwice == Next \/ Again

SpecTwice == InitTwice /\ [][NextTwice]_vars

(***************************************************************************)
(* A call on a command line, from the tokenizer to the return.  parse is   *)
(* synchronous code on one thread with no suspension point: a call that    *)
(* can take its next step takes it.                                        *)
(***************************************************************************)
MaxLineLen == 3
MaxLineParams == 1

LineChars == {" ", "\"", "\\", "1"}

LineDescriptors ==
  { Param(Undefined, Undefined, Fn("upper"), Bool(TRUE), Undefined),
    Param(a, Arr(<<b>>), bool, Undefined, Undefined),
    Param(Undefined, Arr(<<b, a>>), Undefined, Undefined, Str(<<>>)) }

InitLine ==
  /\ params \in SeqsUpTo(LineDescriptors, MaxLineParams)
  /\ s = <<>>
  /\ str \in SeqsUpTo(LineChars, MaxLineLen)
  /\ pc = "split"
  /\ call = 1
  /\ first = Undefined
  /\ Start

NextLine == Scan \/ EndOfInput \/ Prepare \/ Resolve \/ ResolveThrow \/ Finish

SpecLine == InitLine /\ [][NextLine]_vars /\ WF_vars(NextLine)

(***************************************************************************)
(* Calls on schemas whose coercions can fail at every source: a user       *)
(* coercion that rejects the empty string, on a default, on two aliases    *)
(* and on a positional token, beside types.int with a default it rejects.  *)
(***************************************************************************)
MaxParamsFailing == 2
MaxArgsFailing == 2

FailingDescriptors ==
  { Param(Undefined, Undefined, Fn("upper"), Undefined, Str(<<>>)),
    Param(a, Arr(<<b>>), Fn("upper"), Undefined, Undefined),
    Param(Undefined, Undefined, Fn("int"), Undefined, Str(<<"x">>)) }

InitFailing ==
  /\ params \in SeqsUpTo(FailingDescriptors, MaxParamsFailing)
  /\ s \in SeqsUpTo(Arguments, MaxArgsFailing)
  /\ str = <<>>
  /\ pc = "entry"
  /\ call = 1
  /\ first = Undefined
  /\ Start

SpecFailing == InitFailing /\ [][Next]_vars

(***************************************************************************)
(* Vocabulary of the properties.  What a parameter was handed is stated    *)
(* from the splitter's result for the call, not from the loop's steps.     *)
(***************************************************************************)
\* The raw map as the splitter returned it, before any deletion.
Raw0 == raw0

Keys == 1..Len(params)

positionalOnly(n) == ~Truthy(params[n].short) /\ ~Truthy(params[n].long)

\* n is the Rank(n)-th positional-only parameter of the schema.
Rank(n) == Cardinality({m \in 1..n : positionalOnly(m)})

Min(x, y) == IF x < y THEN x ELSE y

\* How many positional tokens the schema's parameters take.
Taken == Min(Cardinality({m \in Keys : positionalOnly(m)}), Len(Raw0.pos))

\* Parameter n takes a positional token, and which.
Consumes(n) == positionalOnly(n) /\ Rank(n) <= Len(Raw0.pos)
Token(n) == Raw0.pos[Rank(n)]

\* The aliases of parameter n: short, then long in declaration order.
Aliases(n) == namesOf(params[n])

\* The j-th alias of parameter n is bound when n is visited: the splitter
\* bound it and no earlier parameter or earlier alias of n has the name.
Visible(n, j) ==
  /\ Has(Raw0, Aliases(n)[j])
  /\ \A m \in 1..(n - 1) : ~Member(Aliases(m), Aliases(n)[j])
  /\ \A u \in 1..(j - 1) : Aliases(n)[u] # Aliases(n)[j]

\* The raw values of the bound aliases of n, in alias order.
Bound(n) ==
  LET vis(j) == Visible(n, j)
      js == SelectSeq([j \in 1..Len(Aliases(n)) |-> j], vis)
  IN [u \in 1..Len(js) |-> Get(Raw0, Aliases(n)[js[u]])]

\* The raw values supplied to n by the input: bound aliases, then a token.
Supplied(n) == Bound(n) \o (IF Consumes(n) THEN <<Token(n)>> ELSE <<>>)

\* Every coercion run for n, in order: the default when there is one to
\* coerce, then the supplied values.
Coerced(n) ==
  (IF Truthy(params[n].default) THEN <<params[n].default>> ELSE <<>>) \o Supplied(n)

Succeeds(n, v) == parser(params[n], v).k = "return" /\ parser(params[n], v).err = Null
Fails(n, v) == parser(params[n], v).k = "return" /\ parser(params[n], v).err # Null

\* The last element of a non-empty sequence satisfying a test.
Last(seq) == seq[Len(seq)]

Returned == pc = "returned"
Succeeded == Returned /\ ret.args # Null

\* C1: when parse returns, exactly one of result and error report is
\* non-null; the report is returned exactly when invalid has an entry or
\* missing or unexpected is non-empty, so a returned report never has all
\* three collections empty.
C1_EitherOr ==
  Returned =>
    LET problem == \/ \E n \in Keys : errors.invalid[n] # Undefined
                   \/ errors.missing # <<>>
                   \/ errors.unexpected # <<>>
    IN /\ (ret.args = Null) # (ret.errors = Null)
       /\ (ret.errors # Null) <=> problem
       /\ ret.errors # Null => ret.errors.o = errors
       /\ ret.args # Null => ret.args.o = args

\* A report whose only entries are unexpected inputs.
C1_Witness ==
  /\ Returned /\ ret.errors # Null /\ ret.args = Null
  /\ \A n \in Keys : ret.errors.o.invalid[n] = Undefined
  /\ ret.errors.o.missing = <<>>
  /\ ret.errors.o.unexpected # <<>>

\* C2: the k-th positional-only parameter is coerced from the k-th raw
\* positional token when there is one; the tokens left are exactly those
\* after the ones taken, so no token is taken twice and a parameter with an
\* alias takes none.
C2_PositionalFifo ==
  Returned =>
    /\ \A n \in Keys :
         Consumes(n) =>
           LET r == parser(params[n], Token(n)) IN
           IF r.err = Null THEN args[n] = r.val ELSE errors.invalid[n] = r.err
    /\ raw.pos = SubSeq(Raw0.pos, Taken + 1, Len(Raw0.pos))
    /\ \A n \in Keys : ~positionalOnly(n) => ~Consumes(n)

\* Two positional-only parameters resolved from two different tokens.
C2_Witness ==
  /\ Succeeded
  /\ \E n, m \in Keys :
       /\ n < m /\ Consumes(n) /\ Consumes(m)
       /\ Token(n) # Token(m)
       /\ args[n] # args[m]

\* The values the supplied raw values of n coerce to, where they do.
SuppliedValues(n) ==
  {parser(params[n], Supplied(n)[u]).val :
     u \in {u \in 1..Len(Supplied(n)) : Succeeds(n, Supplied(n)[u])}}

\* C3: for a non-boolean parameter with a declared default whose coercion
\* succeeds, the field is the coerced default when no alias is bound and no
\* token is taken, and a supplied value when one coerces successfully.
C3_DefaultThenOverride ==
  Returned =>
    \A n \in Keys :
      (/\ params[n].type # bool
       /\ params[n].default # Undefined
       /\ Succeeds(n, params[n].default))
      => /\ Supplied(n) = <<>> => args[n] = parser(params[n], params[n].default).val
         /\ SuppliedValues(n) # {} => args[n] \in SuppliedValues(n)

\* The same for a default that is not the empty string.
C3_NonEmptyDefault ==
  Returned =>
    \A n \in Keys :
      (/\ params[n].type # bool
       /\ Truthy(params[n].default)
       /\ Succeeds(n, params[n].default))
      => /\ Supplied(n) = <<>> => args[n] = parser(params[n], params[n].default).val
         /\ SuppliedValues(n) # {} => args[n] \in SuppliedValues(n)

\* C4: in a successful result every boolean flag has a value, false when
\* nothing was supplied to it; every parameter not declared optional has a
\* value, and so has every parameter with a default; a field is absent only
\* for an optional parameter that was supplied nothing, and it records no
\* error.
C4_Presence ==
  Succeeded =>
    \A n \in Keys :
      LET field == ret.args.o[n] IN
      /\ params[n].type = bool => field \in {Bool(TRUE), Bool(FALSE)}
      /\ params[n].type = bool /\ Supplied(n) = <<>> => field = Bool(FALSE)
      /\ ~Truthy(params[n].optional) => field # Undefined
      /\ params[n].default # Undefined => field # Undefined
      /\ field = Undefined =>
           /\ params[n].optional = Bool(TRUE)
           /\ Supplied(n) = <<>>
           /\ errors.invalid[n] = Undefined
           /\ ~Member(errors.missing, n)

\* A successful result with an absent optional field beside a present one.
C4_Witness ==
  /\ Succeeded
  /\ \E n, m \in Keys :
       /\ ret.args.o[n] = Undefined
       /\ params[m].type # bool /\ ret.args.o[m] # Undefined

\* The coercions of n that fail with a ParseError, in the order they run.
Failures(n) ==
  LET fails(v) == Fails(n, v) IN SelectSeq(Coerced(n), fails)

\* A coercion of n raises an error that is not a ParseError.  Stated from
\* the coercion function itself, not from the parser wrapped around it.
Fatal(n) ==
  /\ params[n].type # bool /\ Truthy(params[n].type)
  /\ LET cs == Coerced(n) IN
     \E u \in 1..Len(cs) :
       LET r == Call(params[n].type, cs[u]) IN
       r.k = "throw" /\ r.err.t # "ParseError"

\* C5: a coercion failing with a ParseError does not make parse throw: the
\* call returns no result and a report whose invalid[name] holds the
\* parameter's ParseError (the latest when several of its coercions fail);
\* an error of another kind from a user coercion is not recorded under
\* invalid and leaves parse, which then returns neither result nor report.
C5_InvalidReportedFatalThrown ==
  /\ Returned =>
       /\ \A n \in Keys : ~Fatal(n)
       /\ \A n \in Keys :
            LET fs == Failures(n) IN
            IF fs # <<>>
            THEN /\ ret.args = Null
                 /\ ret.errors # Null
                 /\ ret.errors.o.invalid[n] = parser(params[n], Last(fs)).err
                 /\ ret.errors.o.invalid[n].t = "ParseError"
            ELSE errors.invalid[n] = Undefined
  /\ pc = "thrown" =>
       /\ Fatal(key)
       /\ \A n \in 1..(key - 1) : ~Fatal(n)
       /\ ret.t = "throw" /\ ret.err.t # "ParseError"
       /\ \A n \in Keys : errors.invalid[n] # ret.err
  /\ pc = "resolve" => \A n \in 1..(key - 1) : ~Fatal(n)

\* A user coercion's ParseError on a positional token, reported.
C5_Witness ==
  /\ Returned /\ ret.args = Null
  /\ \E n \in Keys :
       /\ params[n].type = Fn("upper") /\ Consumes(n)
       /\ ret.errors.o.invalid[n] = ParseError("empty", Token(n))

\* The positional tokens the parameters leave, and the option keys no
\* parameter declares, in the splitter's order.
LeftTokens == SubSeq(Raw0.pos, Taken + 1, Len(Raw0.pos))

Declared(name) == \E n \in Keys : Member(Aliases(n), name)

LeftKeys ==
  LET left(e) == ~Declared(e.key)
      es == SelectSeq(Raw0.opts, left)
  IN [u \in 1..Len(es) |-> Str(es[u].key)]

NonEmpty(v) == v # Str(<<>>)

\* C6 as claimed: unexpected holds every positional token left, in input
\* order, then every option key left, in map order, and nothing else.
C6_AllLeftovers ==
  Returned => errors.unexpected = LeftTokens \o LeftKeys

\* C6: unexpected holds every positional token left that is not the empty
\* string, in input order, then every option key left, in map order, and
\* nothing else.
C6_Unexpected ==
  Returned => errors.unexpected = SelectSeq(LeftTokens, NonEmpty) \o LeftKeys

\* An empty token and an undeclared key are left over: the key is
\* reported, the empty token is not.
C6_Witness ==
  /\ Returned
  /\ \E u \in 1..Len(LeftTokens) : LeftTokens[u] = Str(<<>>)
  /\ LeftKeys # <<>>
  /\ Len(errors.unexpected) < Len(LeftTokens) + Len(LeftKeys)

\* A parameter is still unresolved after every source: no default was
\* seeded and nothing supplied coerced.
Unresolved(n) ==
  LET cs == Coerced(n) IN \A u \in 1..Len(cs) : ~Succeeds(n, cs[u])

Required(n) == params[n].type # bool /\ ~Truthy(params[n].optional)

\* C7 as claimed: the returned report holds an invalid entry for every
\* parameter with a failing coercion, every unresolved required parameter
\* in missing, and every token or key left over in unexpected.
C7_EveryProblem ==
  Returned /\ ret.errors # Null =>
    LET report == ret.errors.o IN
    /\ \A n \in Keys : Failures(n) # <<>> => report.invalid[n] # Undefined
    /\ \A n \in Keys : Required(n) /\ Unresolved(n) => Member(report.missing, n)
    /\ \A u \in 1..Len(LeftTokens) : Member(report.unexpected, LeftTokens[u])
    /\ \A u \in 1..Len(LeftKeys) : Member(report.unexpected, LeftKeys[u])

\* C7: the resolution pass visits every parameter, and the returned report
\* holds an invalid entry for every parameter with a failing coercion,
\* every unresolved required parameter in missing, and every non-empty
\* token and every key left over in unexpected, whatever earlier parameters
\* recorded.
C7_NoShortCircuit ==
  Returned /\ ret.errors # Null =>
    LET report == ret.errors.o IN
    /\ key = Len(params) + 1
    /\ \A n \in Keys : Failures(n) # <<>> => report.invalid[n] # Undefined
    /\ \A n \in Keys : Required(n) /\ Unresolved(n) => Member(report.missing, n)
    /\ \A u \in 1..Len(LeftTokens) :
         NonEmpty(LeftTokens[u]) => Member(report.unexpected, LeftTokens[u])
    /\ \A u \in 1..Len(LeftKeys) : Member(report.unexpected, LeftKeys[u])

\* One report with all three kinds of problem: an invalid entry for one
\* parameter, a later parameter missing, and an unexpected key.
C7_Witness ==
  /\ Returned /\ ret.errors # Null
  /\ \E n, m \in Keys :
       /\ n < m
       /\ ret.errors.o.invalid[n] # Undefined
       /\ Member(ret.errors.o.missing, m)
  /\ ret.errors.o.unexpected # <<>>

\* C8: for a non-boolean parameter some of whose aliases are bound, the
\* resolved value is the coerced value of the last bound alias in the order
\* short, then long in declaration order, whatever the order of the options
\* in the input.
C8_LastAliasWins ==
  Returned =>
    \A n \in Keys :
      (/\ params[n].type # bool
       /\ Bound(n) # <<>>
       /\ Succeeds(n, Last(Bound(n))))
      => args[n] = parser(params[n], Last(Bound(n))).val

\* Position of an option key in the raw map.
MapIndex(name) == CHOOSE u \in 1..Len(Raw0.opts) : Raw0.opts[u].key = name

\* Two aliases of a non-boolean parameter are bound to values that coerce
\* differently, and the input gave the later alias first.
C8_Witness ==
  /\ Succeeded
  /\ \E n \in Keys :
       /\ params[n].type # bool
       /\ Len(Bound(n)) = 2 /\ Len(Aliases(n)) = 2
       /\ MapIndex(Aliases(n)[2]) < MapIndex(Aliases(n)[1])
       /\ parser(params[n], Bound(n)[1]).val # parser(params[n], Bound(n)[2]).val
       /\ Truthy(params[n].default)
       /\ args[n] # parser(params[n], params[n].default).val

\* The bound aliases of n include one with a truthy raw value.
AnyTruthy(n) == \E u \in 1..Len(Bound(n)) : Truthy(Bound(n)[u])

\* C9 as claimed: a boolean flag is true when one of its aliases is bound
\* to a truthy raw value and false otherwise.
C9_FlagIsOrOfAliases ==
  Returned =>
    \A n \in Keys : params[n].type = bool => args[n] = Bool(AnyTruthy(n))

\* C9: a boolean flag that declares an alias is true when one of its
\* aliases is bound to a truthy raw value and false otherwise: a later
\* alias bound to a falsy value does not reset a true from an earlier one.
C9_AliasedFlagIsOr ==
  Returned =>
    \A n \in Keys :
      params[n].type = bool /\ ~positionalOnly(n) => args[n] = Bool(AnyTruthy(n))

\* A flag true from its first alias whose last alias is bound to false.
C9_Witness ==
  /\ Succeeded
  /\ \E n \in Keys :
       /\ params[n].type = bool
       /\ Len(Bound(n)) = 2
       /\ Truthy(Bound(n)[1]) /\ ~Truthy(Bound(n)[2])
       /\ args[n] = Bool(TRUE)

\* C10: a parameter that declares a default string is never listed in
\* missing.
C10_DefaultNeverMissing ==
  Returned =>
    \A n \in Keys : IsStr(params[n].default) => ~Member(errors.missing, n)

\* The same for a default that is not the empty string and coerces.
C10_SeededNeverMissing ==
  Returned =>
    \A n \in Keys :
      Truthy(params[n].default) /\ Succeeds(n, params[n].default)
        => ~Member(errors.missing, n)

\* The positional-only parameters, in schema order.
PositionalKeys == SelectSeq([n \in Keys |-> n], positionalOnly)

\* The placeholder of parameter n: <name>, or <name=default> when a
\* default string is declared.
Placeholder(n) ==
  IF IsStr(params[n].default)
  THEN <<"<">> \o KeyName(n) \o <<"=">> \o params[n].default.s \o <<">">>
  ELSE <<"<">> \o KeyName(n) \o <<">">>

\* C11: help.params holds one entry per parameter that declares neither
\* short nor long, in schema order, each rendered <name> or <name=default>
\* whatever the parameter's kind; the parameters with an alias have their
\* entries in help.options only.
C11_HelpParams ==
  pc # "entry" /\ pc # "split" =>
    /\ help.params = [u \in 1..Len(PositionalKeys) |-> Placeholder(PositionalKeys[u])]
    /\ Len(help.options) = Len(params) - Len(PositionalKeys)

\* The same, entry by entry, for the positional-only parameters that are
\* not boolean flags and whose default is not the empty string.
C11_ValueHelpParams ==
  pc # "entry" /\ pc # "split" =>
    /\ Len(help.params) = Len(PositionalKeys)
    /\ Len(help.options) = Len(params) - Len(PositionalKeys)
    /\ \A u \in 1..Len(PositionalKeys) :
         LET n == PositionalKeys[u] IN
         params[n].type # bool /\ params[n].default # Str(<<>>)
           => help.params[u] = Placeholder(n)

\* C12: parse leaves the schema unchanged: no step of a call changes a
\* descriptor's short, long, type, optional or default, in value or in
\* shape.
C12_SchemaUnchanged == [][params' = params]_vars

\* Every field other than long is left as it was, and long keeps its
\* elements: the only change is a string long becoming a list of one.
C12_OnlyLongReshaped ==
  [][\A n \in Keys :
       /\ params'[n].short = params[n].short
       /\ params'[n].type = params[n].type
       /\ params'[n].optional = params[n].optional
       /\ params'[n].default = params[n].default
       /\ \/ params'[n].long = params[n].long
          \/ IsStr(params[n].long) /\ params'[n].long = Arr(<<params[n].long>>)]_vars

Done == pc \in {"returned", "thrown"}

\* C13: a second call of parse with the same input and the same schema
\* object returns (or throws) what the first call did: result, error
\* report and help are equal by value.
C13_SecondCallEqual ==
  Done /\ call = 2 => ret = first

\* A second call that returned a result resolved from the alias whose
\* long the first call turned from a string into a list.
C13_Witness ==
  /\ Succeeded /\ call = 2
  /\ \E n \in Keys :
       /\ params[n] = Param(a, Arr(<<b>>), Fn("number"), Undefined, Str(<<"1">>))
       /\ Bound(n) # <<>>
       /\ ret.args.o[n] # Num(1)

(***************************************************************************)
(* Vocabulary of the tokenizer's properties, stated on the command line    *)
(* and on the tokens split returned for it.                                *)
(***************************************************************************)
Tokenized == pc = "entry"

Blank(c) == c \in {" ", "\t"}
NotBlank(c) == ~Blank(c)
Quotes == {"'", "\""}

\* No quote character occurs in cs.
Plain(cs) == \A k \in 1..Len(cs) : cs[k] \notin Quotes

\* The number of words of a command line without quotes: the maximal runs
\* of characters that are not blank.
Words(cs) ==
  Cardinality({k \in 1..Len(cs) : ~Blank(cs[k]) /\ (k = 1 \/ Blank(cs[k - 1]))})

RECURSIVE Flatten(_)
Flatten(tokens) ==
  IF tokens = <<>> THEN <<>> ELSE Head(tokens) \o Flatten(Tail(tokens))

\* C14: the tokens split returns include no empty string; a command line
\* of blanks only (or the empty one) yields no token; and in a command line
\* without quotes the tokens are its words, however many blanks separate
\* them.
C14_NoEmptyToken ==
  Tokenized =>
    /\ \A k \in 1..Len(s) : s[k] # <<>>
    /\ (\A k \in 1..Len(str) : Blank(str[k])) => s = <<>>
    /\ Plain(str) =>
         /\ Len(s) = Words(str)
         /\ Flatten(s) = SelectSeq(str, NotBlank)

\* Two tokens separated by a space and a tab, after a leading blank.
C14_Witness ==
  /\ Tokenized
  /\ Len(s) = 2
  /\ Blank(str[1])
  /\ \E k \in 2..(Len(str) - 1) : str[k] = " " /\ str[k + 1] = "\t"

\* The position of the quote q that opens the first quoted section of cs
\* from the Skipping state: the first quote character of cs, at the start
\* or after a blank; 0 when the first quote is another one, or is literal.
Opens(cs, q) ==
  IF \E p \in 1..Len(cs) :
       /\ cs[p] = q /\ Plain(SubSeq(cs, 1, p - 1))
       /\ (p = 1 \/ Blank(cs[p - 1]))
  THEN CHOOSE p \in 1..Len(cs) : cs[p] = q /\ Plain(SubSeq(cs, 1, p - 1))
  ELSE 0

\* The first position after p holding the character q, or the position
\* after the end of cs.
CloseOf(cs, q, p) ==
  IF \E k \in (p + 1)..Len(cs) : cs[k] = q
  THEN CHOOSE k \in (p + 1)..Len(cs) :
         cs[k] = q /\ \A m \in (p + 1)..(k - 1) : cs[m] # q
  ELSE Len(cs) + 1

\* The characters of the single-quoted section opened at p.
SingleContent(cs, p) == SubSeq(cs, p + 1, CloseOf(cs, "'", p) - 1)

\* The position of the last single quote among the first n characters.
LastQuote(cs, n) == CHOOSE p \in 1..n : cs[p] = "'" /\ \A m \in (p + 1)..n : cs[m] # "'"

\* C15 as claimed: a single-quoted section opened from Skipping yields one
\* token, the characters between the opening quote and the next single
\* quote (or the end of input), verbatim.
C15_SingleQuoted ==
  Tokenized =>
    LET p == Opens(str, "'")
        w == Words(SubSeq(str, 1, p - 1))
    IN p > 0 => Len(s) > w /\ s[w + 1] = SingleContent(str, p)

\* C15: a single-quoted section opened from Skipping accumulates the
\* characters after the opening quote verbatim, blanks, double quotes and
\* backslashes included, up to the next single quote or the end of input;
\* it yields them as one token when there is at least one, and no token
\* when there is none.
C15_SingleQuotedNonEmpty ==
  /\ pc = "split" /\ state = "Single" =>
       current = SubSeq(str, LastQuote(str, i) + 1, i)
  /\ Tokenized =>
       LET p == Opens(str, "'")
           w == Words(SubSeq(str, 1, p - 1))
           content == SingleContent(str, p)
           rest == SubSeq(str, CloseOf(str, "'", p) + 1, Len(str))
       IN p > 0 =>
            /\ content # <<>> => Len(s) > w /\ s[w + 1] = content
            /\ content = <<>> /\ (\A k \in 1..Len(rest) : Blank(rest[k])) => Len(s) = w

\* An unterminated single-quoted section holding a blank, a double quote
\* and a backslash, opened after a blank.
C15_Witness ==
  /\ Tokenized
  /\ str = <<" ", "'", "\"", "\\", "\t">>
  /\ s = << <<"\"", "\\", "\t">> >>

\* Where the double-quoted section scanned from position k ends: at its
\* closing quote, a backslash hiding the character after it; at
\* Len(cs) + 1 when the input ends first, at Len(cs) + 2 when it ends
\* right after a backslash.
RECURSIVE DoubleEnd(_, _)
DoubleEnd(cs, k) ==
  IF k > Len(cs) THEN k
  ELSE IF cs[k] = "\"" THEN k
  ELSE IF cs[k] = "\\" THEN DoubleEnd(cs, k + 2)
  ELSE DoubleEnd(cs, k + 1)

\* The character an escaped letter stands for.
Escaped(c) ==
  CASE c = "b" -> Backspace
    [] c = "f" -> "\f"
    [] c = "n" -> "\n"
    [] c = "r" -> "\r"
    [] c = "t" -> "\t"
    [] c = "v" -> VerticalTab
    [] OTHER -> c

\* The text a double-quoted body stands for: each backslash and the
\* character after it give one character, every other character is itself.
RECURSIVE Decode(_)
Decode(cs) ==
  IF cs = <<>> THEN <<>>
  ELSE IF Head(cs) = "\\" /\ Len(cs) >= 2
       THEN <<Escaped(cs[2])>> \o Decode(SubSeq(cs, 3, Len(cs)))
  ELSE <<Head(cs)>> \o Decode(Tail(cs))

\* C16: in a double-quoted section a backslash consumes the character
\* after it: b, f, n, r, t, v give backspace, formfeed, newline, carriage
\* return, tab and vertical tab, any other character (a double quote and a
\* backslash included) is kept literally without the backslash and does not
\* close the section; blanks in the section stay in the token.
C16_DoubleQuotedEscapes ==
  Tokenized =>
    LET p == Opens(str, "\"")
        e == DoubleEnd(str, p + 1)
        w == Words(SubSeq(str, 1, p - 1))
        body == SubSeq(str, p + 1, e - 1)
    IN p > 0 /\ e <= Len(str) + 1 /\ Decode(body) # <<>>
         => Len(s) > w /\ s[w + 1] = Decode(body)

\* A section holding an escaped letter of the table and an escaped double
\* quote: the token is the newline and the quote.
C16_Witness ==
  /\ Tokenized
  /\ str = <<"\"", "\\", "n", "\\", "\"">>
  /\ s = << <<"\n", "\"">> >>

\* No quote and no backslash occurs in cs.
Literal(cs) == \A k \in 1..Len(cs) : cs[k] \notin Quotes \cup {"\\"}

\* The command line is two quoted segments with nothing between them:
\* a quote, literal characters cs, the same quote, a quote, literal
\* characters ds, and that quote again or the end of input.
Adjacent(cs, ds) ==
  \E q1, q2 \in Quotes :
    \/ str = <<q1>> \o cs \o <<q1, q2>> \o ds \o <<q2>>
    \/ str = <<q1>> \o cs \o <<q1, q2>> \o ds

\* C17: quoted segments not separated by a blank are concatenated into one
\* token: '<cs>'"<ds>" yields the single token <cs><ds>.
C17_AdjacentConcatenated ==
  Tokenized =>
    \A k \in 1..(Len(str) - 3) : \A m \in (k + 3)..Len(str) :
      LET cs == SubSeq(str, 2, k)
          ds == SubSeq(str, k + 3, m)
      IN Literal(cs) /\ Literal(ds) /\ cs # <<>> /\ ds # <<>> /\ Adjacent(cs, ds)
           => s = <<cs \o ds>>

\* What split returns for them: one token per segment.
C17_AdjacentSeparate ==
  Tokenized =>
    \A k \in 1..(Len(str) - 3) : \A m \in (k + 3)..Len(str) :
      LET cs == SubSeq(str, 2, k)
          ds == SubSeq(str, k + 3, m)
      IN Literal(cs) /\ Literal(ds) /\ cs # <<>> /\ ds # <<>> /\ Adjacent(cs, ds)
           => s = <<cs, ds>>

\* C18: parse terminates.  Every iteration of the tokenizer's loop moves
\* the read index forward, by two on a backslash in a double-quoted section
\* (also when the backslash is the last character) and by one otherwise;
\* every iteration of the resolution loop moves to the next parameter; and
\* the call ends, returning after the last parameter or throwing.
C18_Terminates ==
  /\ [][Scan =>
          i' = IF state = "Double" /\ str[i + 1] = "\\" THEN i + 2 ELSE i + 1]_vars
  /\ [][pc = "resolve" /\ pc' = "resolve" => key' = key + 1]_vars
  /\ [][pc' = "returned" => key' = Len(params) + 1]_vars
  /\ <>Done

\* A call that returned on a command line ending in a backslash inside a
\* double-quoted section: the read index went past the end of the input.
C18_Witness ==
  /\ Returned
  /\ Len(params) > 0
  /\ state = "Double"
  /\ i = Len(str) + 1
  /\ str[Len(str)] = "\\"

\* Parameter n is required and nothing resolved it.
RequiredUnresolved(n) == Required(n) /\ Unresolved(n)

\* C19: a parameter is listed in missing exactly when it is not a boolean
\* flag, is not optional, and its field is still unresolved after the
\* default, short, long and positional sources; it is listed once, in
\* schema order; a required parameter whose only supplied values failed
\* coercion is listed in both invalid and missing.
C19_MissingExactly ==
  Returned =>
    /\ \A n \in Keys : Member(errors.missing, n) <=> Required(n) /\ args[n] = Undefined
    /\ errors.missing = SelectSeq([n \in Keys |-> n], RequiredUnresolved)
    /\ \A n \in Keys :
         (/\ Required(n)
          /\ Supplied(n) # <<>>
          /\ LET cs == Coerced(n) IN \A u \in 1..Len(cs) : Fails(n, cs[u]))
         => /\ errors.invalid[n] # Undefined
            /\ Member(errors.missing, n)
            /\ ret.args = Null

\* A required parameter without a default whose one supplied value failed
\* coercion: it is in invalid and in missing.
C19_Witness ==
  /\ Returned
  /\ \E n \in Keys :
       /\ params[n].default = Undefined
       /\ Len(Supplied(n)) = 1 /\ Fails(n, Supplied(n)[1])
       /\ ret.errors.o.invalid[n] # Undefined
       /\ Member(ret.errors.o.missing, n)

\* The option keys listed in unexpected: what follows the tokens.
UnexpectedKeys ==
  SubSeq(errors.unexpected, Len(SelectSeq(LeftTokens, NonEmpty)) + 1,
         Len(errors.unexpected))

\* Every alias of parameter m is declared by an earlier parameter.
Shadowed(m) ==
  /\ Aliases(m) # <<>>
  /\ \A j \in 1..Len(Aliases(m)) :
       \E n \in 1..(m - 1) : Member(Aliases(n), Aliases(m)[j])

\* What a parameter is left with when the input supplies it nothing.
Unsupplied(m) ==
  IF params[m].type = bool THEN Bool(FALSE)
  ELSE IF Truthy(params[m].default) /\ Succeeds(m, params[m].default)
       THEN parser(params[m], params[m].default).val
  ELSE Undefined

\* C20: each option key of the raw map is claimed by at most one
\* parameter.  The first parameter declaring a bound key is resolved from
\* its value (or records its coercion failure); a later parameter declaring
\* only such keys is resolved as if nothing was supplied to it: it keeps
\* its default, stays absent or is missing.  No declared key is left in the
\* raw map or listed in unexpected, also when its coercion failed.
C20_KeyClaimedOnce ==
  Returned =>
    /\ \A u \in 1..Len(raw.opts) : ~Declared(raw.opts[u].key)
    /\ \A u \in 1..Len(UnexpectedKeys) : ~Declared(UnexpectedKeys[u].s)
    /\ \A n \in Keys :
         LET bs == Bound(n) IN
         bs # <<>> /\ params[n].type # bool =>
           IF Succeeds(n, Last(bs))
           THEN args[n] = parser(params[n], Last(bs)).val
           ELSE errors.invalid[n] = parser(params[n], Last(bs)).err
    /\ \A m \in Keys :
         Shadowed(m) =>
           /\ args[m] = Unsupplied(m)
           /\ Member(errors.missing, m) <=> Required(m) /\ Unsupplied(m) = Undefined

\* Two parameters declare the key b, which the input binds to a value the
\* first one fails to coerce: the first records the failure, the second is
\* missing, and b is not reported unexpected.
C20_Witness ==
  /\ Returned
  /\ Len(params) = 2
  /\ Shadowed(2)
  /\ Has(Raw0, <<"b">>)
  /\ Fails(1, Get(Raw0, <<"b">>))
  /\ ret.errors.o.invalid[1] # Undefined
  /\ Member(ret.errors.o.missing, 2)
  /\ ret.errors.o.unexpected = <<>>

(***************************************************************************)
(* C21: an invalid entry is never cleared.                                 *)
(***************************************************************************)
\* The declared default of n is rejected by n's own coercion.
DefaultFails(n) ==
  /\ params[n].type # bool
  /\ params[n].default # Undefined
  /\ Fails(n, params[n].default)

\* A value the input supplied to n is rejected by n's coercion.
SuppliedFails(n) ==
  LET vs == Supplied(n) IN \E u \in 1..Len(vs) : Fails(n, vs[u])

\* The call returned no result and a report with invalid[n] set.
ReportedInvalid(n) ==
  /\ ret.args = Null
  /\ ret.errors # Null
  /\ ret.errors.o.invalid[n] # Undefined

\* C21: when the declared default of a parameter or a value supplied to it
\* fails coercion, the call that returns returns a null result and a report
\* with invalid[name] set, whatever the later sources coerce to; so a
\* schema with a default that fails its own coercion fails on every input.
C21_InvalidNeverCleared ==
  Returned =>
    \A n \in Keys : DefaultFails(n) \/ SuppliedFails(n) => ReportedInvalid(n)

\* The same for the coercions parse runs: a failure among them stays in the
\* report, and during the call an entry of invalid, once set, stays set.
C21_CoercedFailureKept ==
  /\ Returned => \A n \in Keys : Failures(n) # <<>> => ReportedInvalid(n)
  /\ \A n \in 1..Len(errors.invalid) :
       n < key /\ Failures(n) # <<>> => errors.invalid[n] # Undefined

\* An earlier source of a parameter failed and a later one succeeded: the
\* alias a was rejected and the alias b coerced, or the default was
\* rejected and the token coerced.
C21_LaterSourceSucceeds ==
  /\ Returned
  /\ \E n \in Keys :
       LET cs == Coerced(n) IN
       /\ Len(cs) >= 2
       /\ Fails(n, cs[1])
       /\ Succeeds(n, cs[Len(cs)])
       /\ ReportedInvalid(n)

\* A parameter whose declared default "" its coercion rejects, in a call
\* that succeeds.
C21_EmptyDefaultSucceeds ==
  /\ Succeeded
  /\ \E n \in Keys : DefaultFails(n) /\ ret.args.o[n] # Undefined

====
